---------------------------- MODULE Spec2Model ----------------------------
(***************************************************************************)
(* Session-scoped task orchestration of the HDT backend.                   *)
(*                                                                         *)
(* The model covers backend/ai_service.py (AIService: the registry of      *)
(* conversation contexts and process_task) and the request handlers of     *)
(* backend/api.py that drive it (start_session, end_session, create_task,  *)
(* submit_physiological_data).  Request handlers run on concurrent         *)
(* threads; create_task is split at every point where it touches state     *)
(* shared with other threads (a database commit, the registry, the model   *)
(* handle, the history list).                                              *)
(***************************************************************************)
EXTENDS Integers, Sequences, FiniteSets, TLC

\* ------------------------------------------------------------------ bounds
\* requests received in one run, of all kinds together: sessions started and
\* ended, samples ingested, tasks submitted (one handler thread each)
MaxOps == 4

\* longest response text given to _parse_response
MaxLen == 8

\* --------------------------------------------------------------- constants
None == "None"

\* NULL of a column or key that otherwise holds a tuple
Null == <<>>

RoleTypes == {"software_engineer", "office_worker", "factory_worker"}

\* table hdt_profiles: the profile the k-th work session is started under
\* carries the k-th role
ProfileRole(profile_id) ==
  IF profile_id % 3 = 1 THEN "software_engineer"
  ELSE IF profile_id % 3 = 2 THEN "office_worker"
  ELSE "factory_worker"

\* (task_type, context) pairs a caller submits; "str" is a non-empty JSON
\* string, a truthy value that has no .get
TaskInputs ==
  { [task_type |-> "general",   context |-> None],
    [task_type |-> "debugging", context |-> "str"] }

\* request bodies of POST /monitoring/physiological: readings in tenths, and
\* Null for a field the body leaves out (data.get gives None)
PhysioInputs ==
  { [cognitive_load |-> <<2>>, stress_level |-> <<6>>],
    [cognitive_load |-> <<4>>, stress_level |-> Null] }

ErrNotConfigured == "AI service not configured. Please set GEMINI_API_KEY."
ErrNoSession     == "Session not found. Please start a session first."
ErrModelCall     == "str(e)"

SessionIds == 1..MaxOps
Reqs       == 1..MaxOps

\* the socket clients that may connect
Clients == {"c1", "c2"}

VARIABLES
  configured,     \* bool(Config.GEMINI_API_KEY); ai_service.model is not None
  chat_sessions,  \* ai_service.chat_sessions: session_id -> reference into heap
  heap,           \* the context dicts ever created, by reference
  sessions,       \* table sessions, session_id = index
  physio,         \* table physiological_data
  tasks,          \* table ai_tasks (committed rows), task_id = index
  req,            \* the POST /tasks handler threads
  endStatus,      \* HTTP status of the last POST /sessions/<id>/end per id
  nOps,           \* requests received so far
  activity,       \* table work_activities
  interactions,   \* table ai_interactions
  clients,        \* socket clients connected
  subs,           \* <<client, session_id>>: the subscriptions clients asked for
  inbox,          \* the events each client was sent
  parse           \* one call of AIService._parse_response: text and result

\* the tables and sockets the handlers of the first part leave alone
side == <<activity, interactions, clients, subs, inbox, parse>>

vars == <<configured, chat_sessions, heap, sessions, physio, tasks, req,
          endStatus, nOps, side>>

\* ----------------------------------------------------------------- helpers
With(f, k, v) == [x \in DOMAIN f \cup {k} |-> IF x = k THEN v ELSE f[x]]

Without(f, k) == [x \in DOMAIN f \ {k} |-> f[x]]

\* AIService.__init__ returns before assigning chat_sessions when no key is
\* configured: the attribute exists only on a configured service
HasChatSessions == configured

\* AIService.get_system_prompt
get_system_prompt(role_type) ==
  IF role_type = "office_worker" THEN "office_worker prompt"
  ELSE IF role_type = "factory_worker" THEN "factory_worker prompt"
  ELSE "software_engineer prompt"

\* the dict create_session stores
NewContext(role_type) ==
  [ role          |-> role_type,
    system_prompt |-> get_system_prompt(role_type),
    history       |-> <<>>,
    chat          |-> <<>> ]

\* AIService.create_session: the registry and heap after the call, and the
\* value returned.  started = FALSE when model.start_chat raises.
create_session(cs, hp, session_id, role_type, started) ==
  IF ~configured \/ ~started
    THEN [cs |-> cs, hp |-> hp, ret |-> FALSE]
    ELSE [cs  |-> With(cs, session_id, Len(hp) + 1),
          hp  |-> Append(hp, NewContext(role_type)),
          ret |-> TRUE]

\* AIService.clear_session: "raise" is the AttributeError of a service that
\* has no chat_sessions attribute
clear_session(cs, session_id) ==
  IF ~HasChatSessions THEN [cs |-> cs, raised |-> TRUE]
  ELSE IF session_id \in DOMAIN cs
    THEN [cs |-> Without(cs, session_id), raised |-> FALSE]
    ELSE [cs |-> cs, raised |-> FALSE]

\* AIService.get_history
get_history(session_id) ==
  IF session_id \in DOMAIN chat_sessions
    THEN heap[chat_sessions[session_id]].history
    ELSE <<>>

\* AIService._build_prompt raises AttributeError on context.get when the
\* context is truthy and not a dict, in the two branches that read it
BuildPromptRaises(task_type, context) ==
  /\ task_type \in {"debugging", "documentation"}
  /\ context = "str"

\* ------------------------------------------------------------------- Init
NoResult == [success |-> FALSE, error |-> None, raw_response |-> Null]
\* --------------------------------------------- AIService._parse_response
\* characters of a response text: a backtick (written BT), a newline (NL), a
\* word character (matched by \w) and a blank (whitespace that is neither)
Chars == {"BT", "NL", "a", " "}

Texts == UNION {[1..n -> Chars] : n \in 0..MaxLen}

IsWord(ch) == ch = "a"

IsSpace(ch) == ch \in {" ", "NL"}

\* the three backticks of the pattern at position i
FenceAt(t, i) ==
  /\ i + 2 <= Len(t)
  /\ t[i] = "BT" /\ t[i + 1] = "BT" /\ t[i + 2] = "BT"

\* (\w+)? is greedy: the first position from j on that holds no word
\* character (Len(t) + 1 when there is none)
RECURSIVE TagEnd(_, _)
TagEnd(t, j) ==
  IF j <= Len(t) /\ IsWord(t[j]) THEN TagEnd(t, j + 1) ELSE j

\* (.*?) before the closing fence is lazy and DOTALL: the first fence at or after j, 0 for none
RECURSIVE FirstFence(_, _)
FirstFence(t, j) ==
  IF j + 2 > Len(t) THEN 0
  ELSE IF FenceAt(t, j) THEN j
  ELSE FirstFence(t, j + 1)

Slice(t, a, b) == [k \in 1..(b - a + 1) |-> t[a + k - 1]]

\* a pattern that does not ask for the newline after the tag
MatchAt_nonewline(t, i) ==
  IF ~FenceAt(t, i) THEN [ok |-> FALSE]
  ELSE LET e == TagEnd(t, i + 3)
           b == IF e <= Len(t) /\ t[e] = "NL" THEN e + 1 ELSE e
           c == FirstFence(t, b)
       IN IF c = 0 THEN [ok |-> FALSE]
          ELSE [ok |-> TRUE, language |-> Slice(t, i + 3, e - 1),
                code |-> Slice(t, b, c - 1), end |-> c + 3]

\* the match of code_pattern that starts at position i: the word
\* characters after the fence are the tag, a newline must follow (no shorter
\* tag can be followed by one), and the body runs up to the next fence
MatchAt(t, i) ==
  IF ~FenceAt(t, i) THEN [ok |-> FALSE]
  ELSE LET e == TagEnd(t, i + 3)
       IN IF ~(e <= Len(t) /\ t[e] = "NL") THEN [ok |-> FALSE]
          ELSE LET c == FirstFence(t, e + 1)
               IN IF c = 0 THEN [ok |-> FALSE]
                  ELSE [ok |-> TRUE, language |-> Slice(t, i + 3, e - 1),
                        code |-> Slice(t, e + 1, c - 1), end |-> c + 3]

\* str.strip()
RECURSIVE LStrip(_)
LStrip(t) ==
  IF t # <<>> /\ IsSpace(Head(t)) THEN LStrip(Tail(t)) ELSE t

\* a strip of the left end only
Strip_left(t) == LStrip(t)

RECURSIVE RStrip(_)
RStrip(t) ==
  IF t # <<>> /\ IsSpace(t[Len(t)]) THEN RStrip(SubSeq(t, 1, Len(t) - 1))
  ELSE t

Strip(t) == RStrip(LStrip(t))

\* re.findall and re.sub scan from the left, skip a position without a match
\* and continue after a match: the groups of the matches, and the text left
\* when the matches are removed
RECURSIVE Scan(_, _)
Scan(t, i) ==
  IF i > Len(t) THEN [matches |-> <<>>, rest |-> <<>>]
  ELSE LET m == MatchAt(t, i)
       IN IF m.ok
            THEN LET r == Scan(t, m.end)
                 IN [matches |-> <<[language |-> m.language,
                                    code |-> m.code]>> \o r.matches,
                     rest |-> r.rest]
            ELSE LET r == Scan(t, i + 1)
                 IN [matches |-> r.matches, rest |-> <<t[i]>> \o r.rest]

CodeBlock(m) ==
  [language |-> IF m.language = <<>> THEN "plaintext" ELSE m.language,
   code |-> Strip(m.code)]

_parse_response(response_text, task_type) ==
  LET found == Scan(response_text, 1)
  IN [type |-> task_type,
      content |-> response_text,
      code_blocks |-> [k \in 1..Len(found.matches) |->
                         CodeBlock(found.matches[k])],
      explanation |-> Strip(found.rest)]

\* no call of _parse_response made
NoParse == [text |-> <<>>, returned |-> FALSE,
            result |-> _parse_response(<<>>, "general")]



IdleReq ==
  [ pc |-> "idle", task_id |-> 0, session_id |-> 0, task_type |-> None,
    context |-> None, session |-> 0, result |-> NoResult, http |-> 0 ]

Init ==
  /\ configured \in BOOLEAN
  /\ chat_sessions = <<>>
  /\ heap = <<>>
  /\ sessions = <<>>
  /\ physio = <<>>
  /\ tasks = <<>>
  /\ req = [r \in Reqs |-> IdleReq]
  /\ endStatus = [s \in SessionIds |-> 0]
  /\ nOps = 0
  /\ activity = <<>>
  /\ interactions = <<>>
  /\ clients = {}
  /\ subs = {}
  /\ inbox = [c \in Clients |-> {}]
  /\ parse = NoParse

\* ------------------------------------------------- POST /sessions/start
NewSessionRow(role_type) ==
  [ role_type |-> role_type, is_active |-> TRUE, end_time |-> 0,
    avg_cognitive_load |-> Null, avg_stress_level |-> Null ]

start_session ==
  /\ nOps < MaxOps
  /\ nOps' = nOps + 1
  /\ \E started \in BOOLEAN :
       LET sid == Len(sessions) + 1
           role_type == ProfileRole(sid)
           c   == create_session(chat_sessions, heap, sid, role_type, started)
       IN /\ sessions' = Append(sessions, NewSessionRow(role_type))
          /\ chat_sessions' = c.cs
          /\ heap' = c.hp
  /\ UNCHANGED <<configured, physio, tasks, req, endStatus, side>>

\* --------------------------------------------- POST /sessions/<id>/end
RECURSIVE Sum(_)
Sum(s) ==
  IF s = <<>> THEN 0 ELSE Head(s) + Sum(Tail(s))

\* the latest reading instead of the mean
Average_last(vals) ==
  <<vals[Len(vals)], 1>>

\* sum(...) / len(physio_data), kept as the exact pair <<sum, count>>
Average(vals) ==
  <<Sum(vals), Len(vals)>>

\* a query without the session filter
SamplesOf_all(session_id) == physio

\* db.query(PhysiologicalData).filter_by(session_id=session_id).all()
SamplesOf(session_id) == SelectSeq(physio, LAMBDA p : p.session_id = session_id)

\* p.cognitive_load or 0
OrZero(x) == IF x = Null THEN 0 ELSE x[1]

Column(rows, field) == [i \in 1..Len(rows) |-> OrZero(rows[i][field])]

\* end_time holds the number of the end call that wrote it (0 is NULL):
\* every call stores a later datetime.now() than the one before
end_session(session_id) ==
  /\ nOps < MaxOps
  /\ nOps' = nOps + 1
  /\ session_id \in 1..Len(sessions)
  /\ LET physio_data == SamplesOf(session_id)
         row  == sessions[session_id]
         row1 == [row EXCEPT !.is_active = FALSE, !.end_time = @ + 1]
         row2 == IF physio_data # <<>>
                   THEN [row1 EXCEPT
                           !.avg_cognitive_load =
                               Average(Column(physio_data, "cognitive_load")),
                           !.avg_stress_level =
                               Average(Column(physio_data, "stress_level"))]
                   ELSE row1
         c == clear_session(chat_sessions, session_id)
     IN /\ sessions' = [sessions EXCEPT ![session_id] = row2]
        /\ chat_sessions' = c.cs
        /\ endStatus' = [endStatus EXCEPT
                           ![session_id] = IF c.raised THEN 500 ELSE 200]
  /\ UNCHANGED <<configured, heap, physio, tasks, req, side>>

\* ------------------------------------------ POST /monitoring/physiological
submit_physiological_data(session_id) ==
  /\ nOps < MaxOps
  /\ nOps' = nOps + 1
  /\ session_id \in 1..Len(sessions)
  /\ \E data \in PhysioInputs :
       physio' = Append(physio, [session_id |-> session_id,
                                 cognitive_load |-> data.cognitive_load,
                                 stress_level |-> data.stress_level])
  /\ UNCHANGED <<configured, chat_sessions, heap, sessions, tasks, req,
                 endStatus, side>>

\* ------------------------------------------------------------ POST /tasks
\* Each request r submits its own command text, written r.
NewTaskRow(session_id, task_type, command) ==
  [ session_id |-> session_id, task_type |-> task_type,
    command_text |-> command, task_status |-> "pending",
    started_at |-> None, completed_at |-> None,
    result_data |-> Null, error_message |-> None ]

\* the two readings of the clock in create_task; the second is the later
StartTime == "datetime.now() at api.py 428"

FinishTime == "datetime.now() at api.py 446"

\* the response of a turn depends on the command and on the turns the
\* handle accepted before it
ResponseText(chat, command) == <<command, Len(chat) + 1>>

\* AIService._parse_response, as far as the orchestration reads it
ParsedResult(task_type, response_text) ==
  <<task_type, response_text>>

HistoryRecord(command, response_text, task_type) ==
  [command |-> command, response |-> response_text, task_type |-> task_type]

Failure(error) == [success |-> FALSE, error |-> error, raw_response |-> Null]

Success(response_text) ==
  [success |-> TRUE, error |-> None, raw_response |-> response_text]

SetReq(r, fields) == req' = [req EXCEPT ![r] = fields]

\* the references of a request body: session_id 0 stands for a body without
\* the key, Len(sessions) + 1 for an id no sessions row has; profile_ok is
\* FALSE for a body without profile_id or with one no hdt_profiles row has
Accepted(session_id, profile_ok) ==
  session_id \in 1..Len(sessions) /\ profile_ok

\* a submission whose row is stored although its references are refused
CT_Insert_keep(r) ==
  /\ req[r].pc = "idle"
  /\ \A q \in 1..(r - 1) : req[q].pc # "idle"
  /\ nOps < MaxOps
  /\ nOps' = nOps + 1
  /\ \E session_id \in 0..(Len(sessions) + 1), profile_ok \in BOOLEAN,
        in \in TaskInputs :
       IF Accepted(session_id, profile_ok)
         THEN /\ tasks' = Append(tasks,
                            NewTaskRow(session_id, in.task_type, r))
              /\ SetReq(r, [req[r] EXCEPT !.pc = "pending",
                              !.task_id = Len(tasks) + 1,
                              !.session_id = session_id,
                              !.task_type = in.task_type,
                              !.context = in.context])
         ELSE /\ tasks' = Append(tasks,
                            NewTaskRow(session_id, in.task_type, r))
              /\ SetReq(r, [req[r] EXCEPT !.pc = "done", !.http = 500,
                              !.session_id = session_id])
  /\ UNCHANGED <<configured, chat_sessions, heap, sessions, physio,
                 endStatus, side>>

\* api.py 410-424 and the except at 456-459: data['session_id'] or
\* data['profile_id'] raises KeyError before db.add when the key is missing;
\* otherwise the row is inserted and committed, and an unknown session_id or
\* profile_id violates the foreign key at the commit.  Either way the except
\* rolls back and the request ends with 500 and no row.  Requests are
\* numbered in the order they arrive.
CT_Insert(r) ==
  /\ req[r].pc = "idle"
  /\ \A q \in 1..(r - 1) : req[q].pc # "idle"
  /\ nOps < MaxOps
  /\ nOps' = nOps + 1
  /\ \E session_id \in 0..(Len(sessions) + 1), profile_ok \in BOOLEAN,
        in \in TaskInputs :
       IF Accepted(session_id, profile_ok)
         THEN /\ tasks' = Append(tasks,
                            NewTaskRow(session_id, in.task_type, r))
              /\ SetReq(r, [req[r] EXCEPT !.pc = "pending",
                              !.task_id = Len(tasks) + 1,
                              !.session_id = session_id,
                              !.task_type = in.task_type,
                              !.context = in.context])
         ELSE /\ tasks' = tasks
              /\ SetReq(r, [req[r] EXCEPT !.pc = "done", !.http = 500,
                              !.session_id = session_id])
  /\ UNCHANGED <<configured, chat_sessions, heap, sessions, physio,
                 endStatus, side>>

\* a start that moves on without writing the processing status
CT_Start_skip(r) ==
  /\ req[r].pc = "pending"
  /\ tasks' = [tasks EXCEPT ![req[r].task_id] =
                 [@ EXCEPT !.started_at = StartTime]]
  /\ SetReq(r, [req[r] EXCEPT !.pc = "processing"])
  /\ UNCHANGED <<configured, chat_sessions, heap, sessions, physio,
                 endStatus, nOps, side>>

\* api.py 427-429
CT_Start(r) ==
  /\ req[r].pc = "pending"
  /\ tasks' = [tasks EXCEPT ![req[r].task_id] =
                 [@ EXCEPT !.task_status = "processing",
                           !.started_at = StartTime]]
  /\ SetReq(r, [req[r] EXCEPT !.pc = "processing"])
  /\ UNCHANGED <<configured, chat_sessions, heap, sessions, physio,
                 endStatus, nOps, side>>

\* a process_task that creates the missing context instead of failing
PT_Check_create(r) ==
  /\ req[r].pc = "processing"
  /\ IF ~configured
       THEN /\ SetReq(r, [req[r] EXCEPT !.pc = "finish",
                            !.result = Failure(ErrNotConfigured)])
            /\ UNCHANGED <<chat_sessions, heap>>
       ELSE /\ SetReq(r, [req[r] EXCEPT !.pc = "lookup"])
            /\ IF req[r].session_id \notin DOMAIN chat_sessions
                 THEN LET c == create_session(chat_sessions, heap,
                                 req[r].session_id,
                                 sessions[req[r].session_id].role_type, TRUE)
                      IN /\ chat_sessions' = c.cs
                         /\ heap' = c.hp
                 ELSE UNCHANGED <<chat_sessions, heap>>
  /\ UNCHANGED <<configured, sessions, physio, tasks, endStatus, nOps, side>>

\* a process_task without the test of self.model
PT_Check_nomodel(r) ==
  /\ req[r].pc = "processing"
  /\ IF req[r].session_id \notin DOMAIN chat_sessions
       THEN SetReq(r, [req[r] EXCEPT !.pc = "finish",
                         !.result = Failure(ErrNoSession)])
       ELSE SetReq(r, [req[r] EXCEPT !.pc = "lookup"])
  /\ UNCHANGED <<configured, chat_sessions, heap, sessions, physio, tasks,
                 endStatus, nOps, side>>

\* ai_service.py 133-143: the two early returns of process_task
PT_Check(r) ==
  /\ req[r].pc = "processing"
  /\ IF ~configured
       THEN SetReq(r, [req[r] EXCEPT !.pc = "finish",
                         !.result = Failure(ErrNotConfigured)])
       ELSE IF req[r].session_id \notin DOMAIN chat_sessions
         THEN SetReq(r, [req[r] EXCEPT !.pc = "finish",
                           !.result = Failure(ErrNoSession)])
         ELSE SetReq(r, [req[r] EXCEPT !.pc = "lookup"])
  /\ UNCHANGED <<configured, chat_sessions, heap, sessions, physio, tasks,
                 endStatus, nOps, side>>

\* ai_service.py 145-146, outside the try: a KeyError when the entry was
\* deleted since the check, or an error raised by _build_prompt, leaves
\* process_task and is caught by create_task (api.py 456-459): rollback and
\* 500, with the row committed as processing
PT_Lookup(r) ==
  /\ req[r].pc = "lookup"
  /\ IF \/ req[r].session_id \notin DOMAIN chat_sessions
        \/ BuildPromptRaises(req[r].task_type, req[r].context)
       THEN SetReq(r, [req[r] EXCEPT !.pc = "done", !.http = 500])
       ELSE SetReq(r, [req[r] EXCEPT !.pc = "send",
                         !.session = chat_sessions[req[r].session_id]])
  /\ UNCHANGED <<configured, chat_sessions, heap, sessions, physio, tasks,
                 endStatus, nOps, side>>

\* a failed model call that empties the registry
PT_Send_reset(r) ==
  /\ req[r].pc = "send"
  /\ \E ok \in BOOLEAN :
       IF ok
         THEN LET c == heap[req[r].session]
              IN /\ heap' = [heap EXCEPT ![req[r].session].chat =
                                Append(@, r)]
                 /\ chat_sessions' = chat_sessions
                 /\ SetReq(r, [req[r] EXCEPT !.pc = "sent",
                                 !.result = Success(ResponseText(c.chat, r))])
         ELSE /\ heap' = heap
              /\ chat_sessions' = <<>>
              /\ SetReq(r, [req[r] EXCEPT !.pc = "finish",
                              !.result = Failure(ErrModelCall)])
  /\ UNCHANGED <<configured, sessions, physio, tasks,
                 endStatus, nOps, side>>

\* a call that is made a second time when the first one raises
PT_Send_retry(r) ==
  /\ req[r].pc = "send"
  /\ \E ok \in BOOLEAN :
       IF ok
         THEN LET c == heap[req[r].session]
              IN /\ heap' = [heap EXCEPT ![req[r].session].chat =
                                Append(@, r)]
                 /\ SetReq(r, [req[r] EXCEPT !.pc = "sent",
                                 !.result = Success(ResponseText(c.chat, r))])
         ELSE /\ heap' = heap
              /\ SetReq(r, [req[r] EXCEPT
                              !.pc = IF req[r].result = NoResult
                                       THEN "send" ELSE "finish",
                              !.result = Failure(ErrModelCall)])
  /\ UNCHANGED <<configured, chat_sessions, sessions, physio, tasks,
                 endStatus, nOps, side>>

\* ai_service.py 150: the turn is applied to the model handle of the
\* context this thread holds, or the call raises
PT_Send(r) ==
  /\ req[r].pc = "send"
  /\ \E ok \in BOOLEAN :
       IF ok
         THEN LET c == heap[req[r].session]
              IN /\ heap' = [heap EXCEPT ![req[r].session].chat =
                                Append(@, r)]
                 /\ SetReq(r, [req[r] EXCEPT !.pc = "sent",
                                 !.result = Success(ResponseText(c.chat, r))])
         ELSE /\ heap' = heap
              /\ SetReq(r, [req[r] EXCEPT !.pc = "finish",
                              !.result = Failure(ErrModelCall)])
  /\ UNCHANGED <<configured, chat_sessions, sessions, physio, tasks,
                 endStatus, nOps, side>>

\* a history that keeps the latest record only
HistoryAppend_replace(history, record) == <<record>>

\* the list after session['history'].append(record)
HistoryAppend(history, record) == Append(history, record)

\* the record is appended before response.text is read
PT_Append_early(r) ==
  /\ req[r].pc = "sent"
  /\ \E ok \in BOOLEAN :
       /\ heap' = [heap EXCEPT ![req[r].session].history =
                      HistoryAppend(@,
                        HistoryRecord(r, req[r].result.raw_response,
                                      req[r].task_type))]
       /\ IF ok
            THEN SetReq(r, [req[r] EXCEPT !.pc = "finish"])
            ELSE SetReq(r, [req[r] EXCEPT !.pc = "finish",
                              !.result = Failure(ErrModelCall)])
  /\ UNCHANGED <<configured, chat_sessions, sessions, physio, tasks,
                 endStatus, nOps, side>>

\* an append that stores the context back under its session id
PT_Append_reinsert(r) ==
  /\ req[r].pc = "sent"
  /\ \E ok \in BOOLEAN :
       IF ok
         THEN /\ heap' = [heap EXCEPT ![req[r].session].history =
                             HistoryAppend(@,
                               HistoryRecord(r, req[r].result.raw_response,
                                             req[r].task_type))]
              /\ chat_sessions' =
                   With(chat_sessions, req[r].session_id, req[r].session)
              /\ SetReq(r, [req[r] EXCEPT !.pc = "finish"])
         ELSE /\ heap' = heap
              /\ chat_sessions' = chat_sessions
              /\ SetReq(r, [req[r] EXCEPT !.pc = "finish",
                              !.result = Failure(ErrModelCall)])
  /\ UNCHANGED <<configured, sessions, physio, tasks,
                 endStatus, nOps, side>>

\* an append that only requests of the task endpoint make
PT_Append_tasksonly(r) ==
  /\ req[r].pc = "sent"
  /\ \E ok \in BOOLEAN :
       IF ok
         THEN /\ heap' = [heap EXCEPT ![req[r].session].history =
                             IF req[r].task_id # 0
                               THEN HistoryAppend(@,
                                      HistoryRecord(r,
                                        req[r].result.raw_response,
                                        req[r].task_type))
                               ELSE @]
              /\ SetReq(r, [req[r] EXCEPT !.pc = "finish"])
         ELSE /\ heap' = heap
              /\ SetReq(r, [req[r] EXCEPT !.pc = "finish",
                              !.result = Failure(ErrModelCall)])
  /\ UNCHANGED <<configured, chat_sessions, sessions, physio, tasks,
                 endStatus, nOps, side>>

\* ai_service.py 153-174: response.text is read and parsed, which may raise
\* (the except turns that into a failure); otherwise the record is appended
\* to the history of the context this thread holds
PT_Append(r) ==
  /\ req[r].pc = "sent"
  /\ \E ok \in BOOLEAN :
       IF ok
         THEN /\ heap' = [heap EXCEPT ![req[r].session].history =
                             HistoryAppend(@,
                               HistoryRecord(r, req[r].result.raw_response,
                                             req[r].task_type))]
              /\ SetReq(r, [req[r] EXCEPT !.pc = "finish"])
         ELSE /\ heap' = heap
              /\ SetReq(r, [req[r] EXCEPT !.pc = "finish",
                              !.result = Failure(ErrModelCall)])
  /\ UNCHANGED <<configured, chat_sessions, sessions, physio, tasks,
                 endStatus, nOps, side>>

\* a finish that stamps the start time again
CT_Finish_restamp(r) ==
  /\ req[r].pc = "finish"
  /\ req[r].task_id # 0
  /\ LET res == req[r].result
         row == tasks[req[r].task_id]
     IN tasks' = [tasks EXCEPT ![req[r].task_id] =
          IF res.success
            THEN [row EXCEPT !.task_status = "completed",
                    !.result_data =
                        ParsedResult(row.task_type, res.raw_response),
                    !.started_at = FinishTime,
                    !.completed_at = FinishTime]
            ELSE [row EXCEPT !.task_status = "failed",
                    !.error_message = res.error,
                    !.started_at = FinishTime,
                    !.completed_at = FinishTime]]
  /\ SetReq(r, [req[r] EXCEPT !.pc = "done", !.http = 201])
  /\ UNCHANGED <<configured, chat_sessions, heap, sessions, physio,
                 endStatus, nOps, side>>

\* a finish that stores the result of a failed call as well
CT_Finish_result(r) ==
  /\ req[r].pc = "finish"
  /\ req[r].task_id # 0
  /\ LET res == req[r].result
         row == tasks[req[r].task_id]
     IN tasks' = [tasks EXCEPT ![req[r].task_id] =
          IF res.success
            THEN [row EXCEPT !.task_status = "completed",
                    !.result_data =
                        ParsedResult(row.task_type, res.raw_response),
                    !.completed_at = FinishTime]
            ELSE [row EXCEPT !.task_status = "failed",
                    !.result_data =
                        ParsedResult(row.task_type, res.raw_response),
                    !.error_message = res.error,
                    !.completed_at = FinishTime]]
  /\ SetReq(r, [req[r] EXCEPT !.pc = "done", !.http = 201])
  /\ UNCHANGED <<configured, chat_sessions, heap, sessions, physio,
                 endStatus, nOps, side>>

\* api.py 438-454
CT_Finish(r) ==
  /\ req[r].pc = "finish"
  /\ req[r].task_id # 0
  /\ LET res == req[r].result
         row == tasks[req[r].task_id]
     IN tasks' = [tasks EXCEPT ![req[r].task_id] =
          IF res.success
            THEN [row EXCEPT !.task_status = "completed",
                    !.result_data =
                        ParsedResult(row.task_type, res.raw_response),
                    !.completed_at = FinishTime]
            ELSE [row EXCEPT !.task_status = "failed",
                    !.error_message = res.error,
                    !.completed_at = FinishTime]]
  /\ SetReq(r, [req[r] EXCEPT !.pc = "done", !.http = 201])
  /\ UNCHANGED <<configured, chat_sessions, heap, sessions, physio,
                 endStatus, nOps, side>>

create_task(r) ==
  \/ CT_Insert(r)
  \/ CT_Start(r)
  \/ PT_Check(r)
  \/ PT_Lookup(r)
  \/ PT_Send(r)
  \/ PT_Append(r)
  \/ CT_Finish(r)

\* ------------------------------------------- POST /monitoring/work-activity
\* an activity that also drops the session's conversation context
submit_work_activity_clear(session_id) ==
  /\ nOps < MaxOps
  /\ nOps' = nOps + 1
  /\ session_id \in 1..Len(sessions)
  /\ activity' = Append(activity, [session_id |-> session_id,
                                   activity_type |-> "typing"])
  /\ chat_sessions' = Without(chat_sessions, session_id)
  /\ UNCHANGED <<configured, heap, sessions, physio, tasks, req,
                 endStatus, interactions, clients, subs, inbox,
                 parse>>

submit_work_activity(session_id) ==
  /\ nOps < MaxOps
  /\ nOps' = nOps + 1
  /\ session_id \in 1..Len(sessions)
  /\ activity' = Append(activity, [session_id |-> session_id,
                                   activity_type |-> "typing"])
  /\ UNCHANGED <<configured, chat_sessions, heap, sessions, physio, tasks,
                 req, endStatus, interactions, clients, subs, inbox,
                 parse>>

\* ------------------------------------------------------------- POST /chat
\* api.py 489-506: the user message is added to the database session, not
\* committed, and process_task is called with task_type general and no
\* context.  A chat request has no ai_tasks row: its task_id stays 0.
CH_Begin(r) ==
  /\ req[r].pc = "idle"
  /\ \A q \in 1..(r - 1) : req[q].pc # "idle"
  /\ nOps < MaxOps
  /\ nOps' = nOps + 1
  /\ \E session_id \in 1..(Len(sessions) + 1) :
       SetReq(r, [req[r] EXCEPT !.pc = "processing",
                    !.session_id = session_id,
                    !.task_type = "general"])
  /\ UNCHANGED <<configured, chat_sessions, heap, sessions, physio, tasks,
                 endStatus, side>>

InteractionRow(session_id, role, message_text) ==
  [session_id |-> session_id, role |-> role, message_text |-> message_text]

\* api.py 508-529: the assistant message is added on success and both rows
\* are committed; an unknown session_id violates the foreign key, the except
\* rolls back and answers 500
CH_Finish(r) ==
  /\ req[r].pc = "finish"
  /\ req[r].task_id = 0
  /\ IF req[r].session_id \in 1..Len(sessions)
       THEN /\ interactions' =
                 (IF req[r].result.success
                    THEN Append(Append(interactions,
                           InteractionRow(req[r].session_id, "user", <<r>>)),
                           InteractionRow(req[r].session_id, "assistant",
                                          req[r].result.raw_response))
                    ELSE Append(interactions,
                           InteractionRow(req[r].session_id, "user", <<r>>)))
            /\ SetReq(r, [req[r] EXCEPT !.pc = "done", !.http = 200])
       ELSE /\ interactions' = interactions
            /\ SetReq(r, [req[r] EXCEPT !.pc = "done", !.http = 500])
  /\ UNCHANGED <<configured, chat_sessions, heap, sessions, physio, tasks,
                 endStatus, nOps, activity, clients, subs, inbox,
                 parse>>

chat(r) ==
  \/ CH_Begin(r)
  \/ CH_Finish(r)

\* ------------------------------------------------------- socket events
TelemetryEvents == {"physiological_data", "activity_data"}

Event(name, session_id) == [name |-> name, session_id |-> session_id]

\* app.py 105-109
handle_connect(c) ==
  /\ nOps < MaxOps
  /\ nOps' = nOps + 1
  /\ c \notin clients
  /\ clients' = clients \cup {c}
  /\ inbox' = [inbox EXCEPT ![c] = @ \cup {Event("connection_response", 0)}]
  /\ UNCHANGED <<configured, chat_sessions, heap, sessions, physio, tasks,
                 req, endStatus, activity, interactions, subs,
                 parse>>

\* app.py 116-121: the handler answers the client; the server stores nothing
\* and joins no room, subs is the record of what each client asked for
handle_subscribe(c, session_id) ==
  /\ nOps < MaxOps
  /\ nOps' = nOps + 1
  /\ c \in clients
  /\ subs' = subs \cup {<<c, session_id>>}
  /\ inbox' = [inbox EXCEPT
                 ![c] = @ \cup {Event("subscription_confirmed", session_id)}]
  /\ UNCHANGED <<configured, chat_sessions, heap, sessions, physio, tasks,
                 req, endStatus, activity, interactions, clients,
                 parse>>

\* emit(..., broadcast=True): every connected client is sent the event
Broadcast(event) ==
  [k \in Clients |-> IF k \in clients THEN inbox[k] \cup {event} ELSE inbox[k]]

\* app.py 123-127
handle_physiological_update(c, session_id) ==
  /\ nOps < MaxOps
  /\ nOps' = nOps + 1
  /\ c \in clients
  /\ inbox' = Broadcast(Event("physiological_data", session_id))
  /\ UNCHANGED <<configured, chat_sessions, heap, sessions, physio, tasks,
                 req, endStatus, activity, interactions, clients, subs,
                 parse>>

\* app.py 129-133
handle_activity_update(c, session_id) ==
  /\ nOps < MaxOps
  /\ nOps' = nOps + 1
  /\ c \in clients
  /\ inbox' = Broadcast(Event("activity_data", session_id))
  /\ UNCHANGED <<configured, chat_sessions, heap, sessions, physio, tasks,
                 req, endStatus, activity, interactions, clients, subs,
                 parse>>

\* ------------------------------------------------------------------- Next
Next ==
  \/ start_session
  \/ \E s \in SessionIds : end_session(s)
  \/ \E s \in SessionIds : submit_physiological_data(s)
  \/ \E r \in Reqs : create_task(r)

Spec == Init /\ [][Next]_vars

\* direct calls of the registry's methods, next to the HTTP handlers
SvcCreateSession ==
  /\ nOps < MaxOps
  /\ \E session_id \in 1..(Len(sessions) + 1), role_type \in RoleTypes :
       LET c == create_session(chat_sessions, heap, session_id, role_type,
                               TRUE)
       IN /\ chat_sessions' = c.cs
          /\ heap' = c.hp
  /\ nOps' = nOps + 1
  /\ UNCHANGED <<configured, sessions, physio, tasks, req, endStatus, side>>

NextSvc ==
  \/ Next
  \/ SvcCreateSession

SpecSvc == Init /\ [][NextSvc]_vars

\* the task handlers next to the chat and activity handlers
NextFull ==
  \/ Next
  \/ \E s \in SessionIds : submit_work_activity(s)
  \/ \E r \in Reqs : chat(r)

SpecFull == Init /\ [][NextFull]_vars

\* the telemetry handlers and the socket events, without tasks
NextLive ==
  \/ start_session
  \/ \E s \in SessionIds : end_session(s)
  \/ \E s \in SessionIds : submit_physiological_data(s)
  \/ \E s \in SessionIds : submit_work_activity(s)
  \/ \E c \in Clients : handle_connect(c)
  \/ \E c \in Clients, s \in 1..(Len(sessions) + 1) : handle_subscribe(c, s)
  \/ \E c \in Clients, s \in 1..(Len(sessions) + 1) :
        handle_physiological_update(c, s)
  \/ \E c \in Clients, s \in 1..(Len(sessions) + 1) :
        handle_activity_update(c, s)

SpecLive == Init /\ [][NextLive]_vars

\* _parse_response on its own: every text up to MaxLen characters, parsed once
InitParse ==
  /\ configured = TRUE
  /\ chat_sessions = <<>>
  /\ heap = <<>>
  /\ sessions = <<>>
  /\ physio = <<>>
  /\ tasks = <<>>
  /\ req = [r \in Reqs |-> IdleReq]
  /\ endStatus = [s \in SessionIds |-> 0]
  /\ nOps = 0
  /\ activity = <<>>
  /\ interactions = <<>>
  /\ clients = {}
  /\ subs = {}
  /\ inbox = [c \in Clients |-> {}]
  /\ \E t \in Texts : parse = [NoParse EXCEPT !.text = t]

parse_response ==
  /\ ~parse.returned
  /\ parse' = [parse EXCEPT !.returned = TRUE,
                 !.result = _parse_response(parse.text, "general")]
  /\ UNCHANGED <<configured, chat_sessions, heap, sessions, physio, tasks,
                 req, endStatus, nOps, activity, interactions, clients,
                 subs, inbox>>

SpecParse == InitParse /\ [][parse_response]_vars

\* ===================================================================
\* Properties
\* ===================================================================
TaskIds == 1..Len(tasks)

Contexts == 1..Len(heap)

TasksOf(session_id) == {t \in TaskIds : tasks[t].session_id = session_id}

\* process_task has returned to create_task
Returned(r) ==
  \/ req[r].pc = "finish"
  \/ req[r].pc = "done" /\ req[r].http = 201

\* some history holds the record of request r
Recorded(r) ==
  \E c \in Contexts : \E i \in 1..Len(heap[c].history) :
    heap[c].history[i].command = r

\* some model handle accepted the turn of request r
Sent(r) ==
  \E c \in Contexts : \E i \in 1..Len(heap[c].chat) : heap[c].chat[i] = r

LegalTransitions ==
  { <<"pending", "processing">>,
    <<"processing", "completed">>,
    <<"processing", "failed">> }

\* C1: a task row is created pending and its status only ever moves
\* pending -> processing -> completed | failed; rows are never removed.
C1_StatusForwardOnly ==
  [][ /\ Len(tasks') >= Len(tasks)
      /\ \A t \in 1..Len(tasks') :
           IF t <= Len(tasks)
             THEN \/ tasks'[t].task_status = tasks[t].task_status
                  \/ <<tasks[t].task_status, tasks'[t].task_status>>
                       \in LegalTransitions
             ELSE tasks'[t].task_status = "pending" ]_vars

C1_Witness ==
  /\ \E t \in TaskIds : tasks[t].task_status = "completed"
  /\ \E t \in TaskIds : tasks[t].task_status = "failed"

\* C2: when process_task returned success=False for a request, no history
\* holds a record of that request, and the step in which it failed changed
\* no history.
C2_FailedNeverAppends ==
  /\ [](\A r \in Reqs :
          Returned(r) /\ ~req[r].result.success => ~Recorded(r))
  /\ [][ \A r \in Reqs :
           ( /\ req[r].pc # "finish"
             /\ req'[r].pc = "finish"
             /\ ~req'[r].result.success )
           => /\ Len(heap') = Len(heap)
              /\ \A c \in Contexts : heap'[c].history = heap[c].history ]_vars

\* a model call that failed after the handle accepted the turn, on a
\* context whose history holds an earlier exchange
C2_Witness ==
  \E r \in Reqs :
    /\ Returned(r)
    /\ req[r].result = Failure(ErrModelCall)
    /\ Sent(r)
    /\ heap[req[r].session].history # <<>>

\* C3: no two requests of one session are both between send_message and
\* the history append.
InSpan(r) == req[r].pc = "sent"

C3_SerializedPerSession ==
  \A r1 \in Reqs, r2 \in Reqs :
    ( /\ r1 # r2
      /\ InSpan(r1)
      /\ InSpan(r2) )
    => req[r1].session_id # req[r2].session_id

\* C4: for an open session all of whose N submitted tasks are completed,
\* the history has length N.
C4_HistoryLengthIsCompleted ==
  \A s \in SessionIds :
    ( /\ configured
      /\ s \in DOMAIN chat_sessions
      /\ \A t \in TasksOf(s) : tasks[t].task_status = "completed" )
    => Len(get_history(s)) = Cardinality(TasksOf(s))

C4_Witness ==
  \E s \in SessionIds :
    /\ configured
    /\ s \in DOMAIN chat_sessions
    /\ Cardinality(TasksOf(s)) = 2
    /\ \A t \in TasksOf(s) : tasks[t].task_status = "completed"

\* C5: in every history the records stand in the order in which the model
\* handle applied their turns (the turn number is part of the response).
C5_HistoryInTurnOrder ==
  \A c \in Contexts :
    \A i \in 1..Len(heap[c].history), j \in 1..Len(heap[c].history) :
      i < j => heap[c].history[i].response[2] < heap[c].history[j].response[2]

IsPrefix(a, b) ==
  /\ Len(a) <= Len(b)
  /\ \A i \in 1..Len(a) : a[i] = b[i]

\* C6: while a session id stays registered its context is never replaced:
\* the entry keeps its role, system prompt and model handle, and its history
\* only grows (create_session on a registered id is a no-op).
C6_OpenKeepsExistingContext ==
  [][ \A s \in SessionIds :
        (s \in DOMAIN chat_sessions /\ s \in DOMAIN chat_sessions')
        => /\ heap'[chat_sessions'[s]].role = heap[chat_sessions[s]].role
           /\ heap'[chat_sessions'[s]].system_prompt
                = heap[chat_sessions[s]].system_prompt
           /\ IsPrefix(heap[chat_sessions[s]].chat,
                       heap'[chat_sessions'[s]].chat)
           /\ IsPrefix(heap[chat_sessions[s]].history,
                       heap'[chat_sessions'[s]].history) ]_vars

\* C7: ending a session never fails in clear_session: no end request is
\* answered 500.
C7_CloseNeverRaises ==
  \A s \in SessionIds : endStatus[s] # 500

\* C8: create_task returns to its caller only when the task it created is
\* completed or failed.
C8_ReturnsOnlyTerminal ==
  \A r \in Reqs :
    (req[r].pc = "done" /\ req[r].task_id # 0)
    => tasks[req[r].task_id].task_status \in {"completed", "failed"}

\* the registry holds no context for the session id
NoContext(session_id) ==
  \/ ~HasChatSessions
  \/ session_id \notin DOMAIN chat_sessions

\* request r leaves the early returns of process_task in this step
Checks(r) == req[r].pc = "processing" /\ req'[r].pc # "processing"

\* C9 as stated: whenever process_task finds no context for the session id
\* it fails with the start-a-session-first message and creates nothing.
C9_NoContextSaysStartSession ==
  [][ \A r \in Reqs :
        (Checks(r) /\ NoContext(req[r].session_id))
        => /\ req'[r].pc = "finish"
           /\ req'[r].result = Failure(ErrNoSession)
           /\ UNCHANGED <<chat_sessions, heap>> ]_vars

\* C9 amended: on a configured service, a task whose session id has no
\* context when process_task looks it up fails with the
\* start-a-session-first message and creates no context; such a task ends
\* failed with that message and no model handle accepted a turn for it.
C9_ConfiguredNoContextSaysStartSession ==
  /\ [][ \A r \in Reqs :
           (Checks(r) /\ configured /\ NoContext(req[r].session_id))
           => /\ req'[r].pc = "finish"
              /\ req'[r].result = Failure(ErrNoSession)
              /\ UNCHANGED <<chat_sessions, heap>> ]_vars
  /\ [](\A r \in Reqs :
          (req[r].pc = "done" /\ req[r].result = Failure(ErrNoSession))
          => /\ tasks[req[r].task_id].task_status = "failed"
             /\ tasks[req[r].task_id].error_message = ErrNoSession
             /\ ~Sent(r))

\* a task failed that way on a session that was started and ended
C9_Witness ==
  \E r \in Reqs :
    /\ configured
    /\ req[r].pc = "done"
    /\ req[r].result = Failure(ErrNoSession)
    /\ tasks[req[r].task_id].task_status = "failed"
    /\ sessions[req[r].session_id].end_time > 0

\* C10: on a service without a backend every task that create_task returned
\* from is failed with the missing-configuration message, which is not the
\* message of a failed model call; no step of a task request changes the
\* registry, a history, the samples or a session's summary.
C10_UnconfiguredTaskFails ==
  /\ [](~configured =>
          \A r \in Reqs :
            (req[r].pc = "done" /\ req[r].task_id # 0)
            => /\ tasks[req[r].task_id].task_status = "failed"
               /\ tasks[req[r].task_id].error_message = ErrNotConfigured
               /\ tasks[req[r].task_id].error_message # ErrModelCall)
  /\ [][ ~configured =>
           \A r \in Reqs :
             req'[r] # req[r]
             => UNCHANGED <<chat_sessions, heap, sessions, physio>> ]_vars

\* a failed task of a session that has a sample and a computed summary
C10_Witness ==
  \E r \in Reqs :
    /\ ~configured
    /\ req[r].pc = "done"
    /\ req[r].task_id # 0
    /\ tasks[req[r].task_id].error_message = ErrNotConfigured
    /\ sessions[req[r].session_id].avg_cognitive_load # Null

\* C11: a session id has a conversation context exactly when its work
\* session was started and has not been ended.
C11_ContextIffActive ==
  \A s \in SessionIds :
    (s \in DOMAIN chat_sessions)
      <=> (s \in 1..Len(sessions) /\ sessions[s].end_time = 0)

\* C12: started_at is NULL exactly while the task is pending, completed_at
\* is NULL exactly while it is pending or processing, and neither is ever
\* written again once it holds a time.
C12_TimesFollowStatus ==
  /\ [](\A t \in TaskIds :
          /\ (tasks[t].started_at = None)
               <=> (tasks[t].task_status = "pending")
          /\ (tasks[t].completed_at = None)
               <=> (tasks[t].task_status \in {"pending", "processing"}))
  /\ [][ \A t \in TaskIds :
           /\ tasks[t].started_at # None
                => tasks'[t].started_at = tasks[t].started_at
           /\ tasks[t].completed_at # None
                => tasks'[t].completed_at = tasks[t].completed_at ]_vars

\* a finished task next to one that is still processing
C12_Witness ==
  /\ \E t \in TaskIds : /\ tasks[t].task_status \in {"completed", "failed"}
                        /\ tasks[t].started_at = StartTime
                        /\ tasks[t].completed_at = FinishTime
  /\ \E t \in TaskIds : /\ tasks[t].task_status = "processing"
                        /\ tasks[t].started_at = StartTime

\* C13: result_data is set exactly on completed tasks and error_message
\* exactly on failed ones.
C13_ResultIffCompleted ==
  \A t \in TaskIds :
    /\ (tasks[t].result_data # Null) <=> (tasks[t].task_status = "completed")
    /\ (tasks[t].error_message # None) <=> (tasks[t].task_status = "failed")

C13_Witness ==
  /\ \E t \in TaskIds : /\ tasks[t].task_status = "completed"
                        /\ tasks[t].result_data # Null
  /\ \E t \in TaskIds : /\ tasks[t].task_status = "failed"
                        /\ tasks[t].error_message = ErrModelCall

\* C14: a context that no request holds between send_message and the
\* history append has as many turns in its model handle as records in its
\* history.
C14_NoHalfAppliedTurn ==
  \A c \in Contexts :
    (\A r \in Reqs : ~(req[r].pc = "sent" /\ req[r].session = c))
    => Len(heap[c].chat) = Len(heap[c].history)

\* the state of every session other than a is the same after the step
OthersUnchanged(a) ==
  /\ \A s \in SessionIds \ {a} :
       IF s \in DOMAIN chat_sessions
         THEN /\ s \in DOMAIN chat_sessions'
              /\ chat_sessions'[s] = chat_sessions[s]
              /\ heap'[chat_sessions[s]] = heap[chat_sessions[s]]
         ELSE s \notin DOMAIN chat_sessions'
  /\ \A t \in TaskIds : tasks[t].session_id # a => tasks'[t] = tasks[t]
  /\ \A s \in (1..Len(sessions)) \ {a} : sessions'[s] = sessions[s]
  /\ physio' = physio

\* C15: no step of a task request on one session changes another session's
\* context, tasks, samples or summary, in particular not the step in which
\* the request fails.
C15_FailureStaysInSession ==
  [][ \A r \in Reqs :
        req'[r] # req[r] => OthersUnchanged(req'[r].session_id) ]_vars

\* a failed task on one session next to another session with a history
C15_Witness ==
  \E r \in Reqs : \E b \in DOMAIN chat_sessions :
    /\ req[r].pc = "done"
    /\ req[r].task_id # 0
    /\ tasks[req[r].task_id].task_status = "failed"
    /\ b # req[r].session_id
    /\ get_history(b) # <<>>

\* the summary averages of every session are the same after the step
AveragesUnchanged ==
  \A s \in 1..Len(sessions) :
    /\ sessions'[s].avg_cognitive_load = sessions[s].avg_cognitive_load
    /\ sessions'[s].avg_stress_level = sessions[s].avg_stress_level

\* C16: a step that ingests a physiological or activity sample leaves every
\* conversation context and every task record unchanged, and a step of a task
\* or chat request leaves the stored samples and the summary averages
\* unchanged.
C16_IngestionAndTasksDisjoint ==
  [][ /\ (physio' # physio \/ activity' # activity)
           => /\ chat_sessions' = chat_sessions
              /\ heap' = heap
              /\ tasks' = tasks
              /\ interactions' = interactions
      /\ (req' # req)
           => /\ physio' = physio
              /\ activity' = activity
              /\ AveragesUnchanged ]_vars

\* samples of both kinds stored for a session that completed a task
C16_Witness ==
  \E t \in TaskIds :
    /\ tasks[t].task_status = "completed"
    /\ \E i \in 1..Len(physio) : physio[i].session_id = tasks[t].session_id
    /\ \E i \in 1..Len(activity) : activity[i].session_id = tasks[t].session_id

\* the positions in physio of the samples ingested for session s
SampleIdx(s) == {i \in 1..Len(physio) : physio[i].session_id = s}

\* the sum of one field over the samples at the positions idx, a missing
\* value adding nothing
RECURSIVE Total(_, _)
Total(idx, field) ==
  IF idx = {} THEN 0
  ELSE LET i == CHOOSE k \in idx : TRUE
           v == physio[i][field]
       IN (IF v = Null THEN 0 ELSE v[1]) + Total(idx \ {i}, field)

\* the stored average, a pair <<sum, count>>, is the quotient total / count
IsMean(avg, total, count) ==
  avg # Null /\ avg[1] * count = total * avg[2]

\* the summary of session s holds the means over the samples ingested for s
HoldsMeans(row, s) ==
  /\ IsMean(row.avg_cognitive_load,
            Total(SampleIdx(s), "cognitive_load"), Cardinality(SampleIdx(s)))
  /\ IsMean(row.avg_stress_level,
            Total(SampleIdx(s), "stress_level"), Cardinality(SampleIdx(s)))

C18_NoSamplesNoAverages ==
  \A s \in 1..Len(sessions) :
    SampleIdx(s) = {}
      => /\ sessions[s].avg_cognitive_load = Null
         /\ sessions[s].avg_stress_level = Null

\* a session ended without samples while another session has one
C18_Witness ==
  \E s \in 1..Len(sessions) :
    /\ sessions[s].end_time > 0
    /\ SampleIdx(s) = {}
    /\ physio # <<>>
    /\ sessions[s].avg_cognitive_load = Null

\* C19: once a session has been ended, no step changes its averages or its
\* end time (and with it the duration, end time minus start time).
C19_EndFreezesSummary ==
  [][ \A s \in 1..Len(sessions) :
        sessions[s].end_time > 0
          => /\ sessions'[s].end_time = sessions[s].end_time
             /\ sessions'[s].avg_cognitive_load
                  = sessions[s].avg_cognitive_load
             /\ sessions'[s].avg_stress_level
                  = sessions[s].avg_stress_level ]_vars

\* the sessions that gain a stored sample in the step
Ingested ==
  {s \in SessionIds :
     \/ /\ Len(physio') > Len(physio)
        /\ physio'[Len(physio')].session_id = s
     \/ /\ Len(activity') > Len(activity)
        /\ activity'[Len(activity')].session_id = s}

\* C20: a step that ingests a sample for session s delivers a telemetry event
\* of s to every client subscribed to s, and a client is delivered a telemetry
\* event of s only if it subscribed to s.
C20_PublishedToOwnSubscribers ==
  [][ /\ \A s \in Ingested : \A c \in clients :
           <<c, s>> \in subs
             => \E e \in inbox'[c] \ inbox[c] :
                  e.name \in TelemetryEvents /\ e.session_id = s
      /\ \A c \in Clients : \A e \in inbox'[c] \ inbox[c] :
           e.name \in TelemetryEvents => <<c, e.session_id>> \in subs ]_vars

\* the task submission of request r was refused at the insert
Rejected(r) ==
  /\ req[r].pc = "done"
  /\ req[r].task_id = 0
  /\ req[r].task_type = None

\* C21: the step that refuses a task submission for a missing or unknown
\* session or profile reference leaves the task records as they were, and no
\* model handle ever receives a turn of a refused submission.
C21_RejectedBeforeRecord ==
  /\ [](\A r \in Reqs : Rejected(r) => ~Sent(r) /\ ~Recorded(r))
  /\ [][ \A r \in Reqs :
           (~Rejected(r) /\ Rejected(r)')
             => /\ tasks' = tasks
                /\ heap' = heap
                /\ chat_sessions' = chat_sessions ]_vars

\* one submission refused for a missing session reference and one for an
\* unknown session id, next to a stored task
C21_Witness ==
  /\ \E r \in Reqs : Rejected(r) /\ req[r].session_id = 0
  /\ \E r \in Reqs : Rejected(r) /\ req[r].session_id = Len(sessions) + 1
  /\ tasks # <<>>

\* how far a request has come; the model call is the step that leaves "send"
Progress(pc) ==
  CASE pc = "idle"       -> 0
    [] pc = "pending"    -> 1
    [] pc = "processing" -> 2
    [] pc = "lookup"     -> 3
    [] pc = "send"       -> 4
    [] pc = "sent"       -> 5
    [] pc = "finish"     -> 6
    [] pc = "done"       -> 7

\* C22: every step of a request moves it forward, so it passes the model
\* call at most once, and each turn a model handle holds is the only one of
\* its request; a failed task row and a finished request never change again.
C22_NoRetries ==
  /\ [](\A c \in Contexts : \A i, j \in 1..Len(heap[c].chat) :
          heap[c].chat[i] = heap[c].chat[j] => i = j)
  /\ [][ /\ \A r \in Reqs :
              req'[r] # req[r] => Progress(req'[r].pc) > Progress(req[r].pc)
         /\ \A t \in TaskIds :
              tasks[t].task_status = "failed" => tasks'[t] = tasks[t] ]_vars

\* a task that failed in the model call, finished, next to a later task of
\* the same session that was sent
C22_Witness ==
  \E r \in Reqs, q \in Reqs :
    /\ req[r].pc = "done"
    /\ req[r].task_id # 0
    /\ tasks[req[r].task_id].task_status = "failed"
    /\ tasks[req[r].task_id].error_message = ErrModelCall
    /\ q # r
    /\ req[q].session_id = req[r].session_id
    /\ Sent(q)

\* the text holds a complete fenced region: an opening fence, word characters
\* or nothing as the tag, a newline, a body and a closing fence
HasRegion(t) ==
  \E i \in 1..Len(t), e \in 1..Len(t), j \in 1..Len(t) :
    /\ FenceAt(t, i)
    /\ e >= i + 3
    /\ \A k \in (i + 3)..(e - 1) : IsWord(t[k])
    /\ t[e] = "NL"
    /\ j > e
    /\ FenceAt(t, j)

\* the text without its leading and trailing whitespace
Trimmed(t) ==
  LET solid == {k \in 1..Len(t) : ~IsSpace(t[k])}
  IN IF solid = {} THEN <<>>
     ELSE SubSeq(t, CHOOSE a \in solid : \A k \in solid : a <= k,
                    CHOOSE b \in solid : \A k \in solid : b >= k)

\* C23: for a text without a complete fenced region, also one with an
\* unterminated or malformed fence, _parse_response returns no code block and
\* the trimmed text as the explanation.
C23_NoFenceGivesTrimmedText ==
  (parse.returned /\ ~HasRegion(parse.text))
    => /\ parse.result.code_blocks = <<>>
       /\ parse.result.explanation = Trimmed(parse.text)
       /\ parse.result.content = parse.text

\* a text with blanks around an unterminated fence, parsed
C23_Witness ==
  /\ parse.returned
  /\ parse.text = <<" ", "BT", "BT", "BT", "a", "NL", "a", " ">>
  /\ parse.result.code_blocks = <<>>
  /\ parse.result.explanation = <<"BT", "BT", "BT", "a", "NL", "a">>

\* a text with a complete fenced region gives a code block
C23_BlockFound ==
  /\ parse.returned
  /\ parse.text = <<"BT", "BT", "BT", "a", "NL", "BT", "BT", "BT">>
  /\ parse.result.code_blocks = <<[language |-> <<"a">>, code |-> <<>>]>>
  /\ parse.result.explanation = <<>>

\* the requests whose process_task call ran on context c and returned success
Succeeded(c) ==
  {r \in Reqs : /\ req[r].pc \in {"finish", "done"}
                /\ req[r].session = c
                /\ req[r].result.success}

\* C24: the history of every context holds one record per process_task call
\* that succeeded on it, from the task or the chat endpoint, each with the
\* call's command, response and task type; a step appends at most one record
\* at the end and changes no record that is there.
C24_OneRecordPerSuccess ==
  /\ [](\A c \in Contexts :
          /\ Len(heap[c].history) = Cardinality(Succeeded(c))
          /\ \A r \in Succeeded(c) :
               \E i \in 1..Len(heap[c].history) :
                 heap[c].history[i] =
                   HistoryRecord(r, req[r].result.raw_response,
                                 req[r].task_type))
  /\ [][ \A c \in Contexts :
           /\ IsPrefix(heap[c].history, heap'[c].history)
           /\ Len(heap'[c].history) <= Len(heap[c].history) + 1 ]_vars

\* a history of two records, one of a task and one of a chat message
C24_Witness ==
  \E c \in Contexts, r \in Reqs, q \in Reqs :
    /\ Len(heap[c].history) = 2
    /\ r \in Succeeded(c) /\ req[r].task_id # 0
    /\ q \in Succeeded(c) /\ req[q].task_id = 0

\* request r holds the context it looked up and its session has been ended
ClosedUnder(r) ==
  /\ req[r].session # 0
  /\ req[r].session_id \in 1..Len(sessions)
  /\ sessions[req[r].session_id].end_time > 0

\* C25: a task that holds its context when the session is closed can still
\* take each of its remaining steps and is terminal when its request is
\* done; the closed id has no entry in the registry, now or later, and
\* get_history gives the empty list for it, whatever the task appends.
C25_CloseDuringTask ==
  /\ [](\A r \in Reqs :
          ClosedUnder(r)
            => /\ req[r].session_id \notin DOMAIN chat_sessions
               /\ get_history(req[r].session_id) = <<>>
               /\ req[r].pc = "send" => ENABLED PT_Send(r)
               /\ req[r].pc = "sent" => ENABLED PT_Append(r)
               /\ req[r].pc = "finish" => ENABLED CT_Finish(r)
               /\ req[r].pc = "done"
                    => tasks[req[r].task_id].task_status
                         \in {"completed", "failed"})
  /\ [][ \A r \in Reqs :
           ClosedUnder(r)
             => req[r].session_id \notin DOMAIN chat_sessions' ]_vars

\* a session closed while a task of it is between send_message and the
\* append, its context holding the record of an earlier task
C25_Witness ==
  \E r \in Reqs :
    /\ ClosedUnder(r)
    /\ req[r].pc = "sent"
    /\ heap[req[r].session].history # <<>>
    /\ get_history(req[r].session_id) = <<>>

=============================================================================
